---- MODULE Spec2Model ----
(***************************************************************************)
(* The SBTi pathway extraction scripts of blipee-os                        *)
(*   scripts/extract-sbti-pathways-v2.py  ("v2")                           *)
(*   scripts/extract-sbti-pathways.py     ("v1")                           *)
(* as a state machine: one run of a script over the 'Database' sheet of a  *)
(* workbook (header scan, one step per data row, file write, summary),     *)
(* followed by the application of the written SQL file to the              *)
(* sbti_pathways table.                                                    *)
(***************************************************************************)
EXTENDS Integers, Sequences, FiniteSets, TLC

\* ------------------------------------------------------------------ bounds
\* number of sheet columns to the right of the eight metadata columns
NumYearCols == 2
\* largest number of data rows of a sheet
MaxRows == 2
\* how many times the written file is applied to the table
MaxApply == 2
\* the longest historicalData of a forecast request
MaxPoints == 13
\* the largest monthsToForecast of a forecast request
MaxMonths == 2

\* --------------------------------------------------------- program constants
MinYear == 2014
MaxYear == 2050
\* first column the v2 header scan reads: range(9, ws.max_column + 1)
FirstYearCol == 9
\* forecast service: len(request.historicalData) < 12
MinHistory == 12

\* ------------------------------------------------------------- cell values
\* A cell value as openpyxl returns it (data_only=True): None, str, int,
\* float or bool.  Floats are kept in tenths (12.5 is FloatC(125)).
None == [t |-> "none", s |-> "", n |-> 0]
Str(x) == [t |-> "str", s |-> x, n |-> 0]
IntC(k) == [t |-> "int", s |-> "", n |-> k]
FloatC(tenths) == [t |-> "float", s |-> "", n |-> tenths]
BoolC(b) == [t |-> "bool", s |-> "", n |-> IF b THEN 1 ELSE 0]

\* isinstance(v, str)
IsStr(c) == c.t = "str"
\* isinstance(v, (int, float)): bool is a subclass of int in Python
IsIntOrFloat(c) == c.t \in {"int", "float", "bool"}
\* the numeric value of a number cell, in tenths
Tenths(c) == IF c.t = "float" THEN c.n ELSE c.n * 10
\* Python truthiness: None, "", 0, 0.0 and False are falsy
Truthy(c) ==
    CASE c.t = "none" -> FALSE
      [] c.t = "str" -> c.s # ""
      [] OTHER -> c.n # 0

\* ------------------------------------------------------------------ strings
\* The characters of the strings that are parsed or pattern-matched.
Chars ==
    ("2013" :> <<"2", "0", "1", "3">>) @@
    ("2014" :> <<"2", "0", "1", "4">>) @@
    ("2020" :> <<"2", "0", "2", "0">>) @@
    ("2021" :> <<"2", "0", "2", "1">>) @@
    ("2022" :> <<"2", "0", "2", "2">>) @@
    ("2023" :> <<"2", "0", "2", "3">>) @@
    ("2050" :> <<"2", "0", "5", "0">>) @@
    ("2051" :> <<"2", "0", "5", "1">>) @@
    (" 2020" :> <<" ", "2", "0", "2", "0">>) @@
    ("20x0" :> <<"2", "0", "x", "0">>) @@
    ("" :> <<>>) @@
    ("Model.Parameter" :>
        <<"M", "o", "d", "e", "l", ".", "P", "a", "r", "a", "m", "e", "t", "e", "r">>) @@
    ("Scenario" :>
        <<"S", "c", "e", "n", "a", "r", "i", "o">>) @@
    ("Sheet" :>
        <<"S", "h", "e", "e", "t">>) @@
    ("Region" :>
        <<"R", "e", "g", "i", "o", "n">>) @@
    ("Flow.1" :>
        <<"F", "l", "o", "w", ".", "1">>) @@
    ("Unit" :>
        <<"U", "n", "i", "t">>) @@
    ("Table.1" :>
        <<"T", "a", "b", "l", "e", ".", "1">>) @@
    ("Sector.ETP" :>
        <<"S", "e", "c", "t", "o", "r", ".", "E", "T", "P">>) @@
    ("manual" :> <<"m", "a", "n", "u", "a", "l">>) @@
    ("IEA SBTi Tool v2.4" :>
        <<"I", "E", "A", " ", "S", "B", "T", "i", " ", "T", "o", "o", "l",
          " ", "v", "2", ".", "4">>) @@
    ("IEA Database Sheet" :>
        <<"I", "E", "A", " ", "D", "a", "t", "a", "b", "a", "s", "e", " ",
          "S", "h", "e", "e", "t">>)

DigitVal ==
    ("0" :> 0) @@ ("1" :> 1) @@ ("2" :> 2) @@ ("3" :> 3) @@ ("4" :> 4) @@
    ("5" :> 5) @@ ("6" :> 6) @@ ("7" :> 7) @@ ("8" :> 8) @@ ("9" :> 9)
DigitStr == <<"0", "1", "2", "3", "4", "5", "6", "7", "8", "9">>

IsSpace(ch) == ch \in {" ", "\t", "\n"}
IsDigit(ch) == ch \in DOMAIN DigitVal

RECURSIVE LStrip(_)
LStrip(cs) ==
    IF cs # <<>> /\ IsSpace(Head(cs)) THEN LStrip(Tail(cs)) ELSE cs

RECURSIVE RStrip(_)
RStrip(cs) ==
    IF cs # <<>> /\ IsSpace(cs[Len(cs)])
    THEN RStrip(SubSeq(cs, 1, Len(cs) - 1))
    ELSE cs

RECURSIVE DigitsValue(_, _)
DigitsValue(cs, acc) ==
    IF cs = <<>> THEN acc
    ELSE IF Head(cs) = "_" THEN DigitsValue(Tail(cs), acc)
    ELSE DigitsValue(Tail(cs), acc * 10 + DigitVal[Head(cs)])

\* Python's int(str): surrounding whitespace is stripped, an optional sign,
\* then decimal digits with single underscores between digits; anything
\* else raises ValueError (ok = FALSE).
PyInt(cs) ==
    LET body == RStrip(LStrip(cs))
        signed == body # <<>> /\ Head(body) \in {"+", "-"}
        digs == IF signed THEN Tail(body) ELSE body
        wellFormed ==
            /\ digs # <<>>
            /\ IsDigit(digs[1])
            /\ IsDigit(digs[Len(digs)])
            /\ \A i \in 1..Len(digs) : IsDigit(digs[i]) \/ digs[i] = "_"
            /\ \A i \in 1..(Len(digs) - 1) :
                   ~(digs[i] = "_" /\ digs[i + 1] = "_")
    IN  IF wellFormed
        THEN [ok |-> TRUE,
              val |-> IF signed /\ Head(body) = "-"
                      THEN 0 - DigitsValue(digs, 0)
                      ELSE DigitsValue(digs, 0)]
        ELSE [ok |-> FALSE, val |-> 0]

RECURSIVE NatStr(_)
NatStr(k) ==
    IF k < 10 THEN DigitStr[k + 1]
    ELSE NatStr(k \div 10) \o DigitStr[(k % 10) + 1]

\* str(v) as an f-string formats a field
PyFormat(c) ==
    CASE c.t = "none" -> "None"
      [] c.t = "str" -> c.s
      [] c.t = "bool" -> IF c.n = 1 THEN "True" ELSE "False"
      [] c.t = "int" ->
            IF c.n < 0 THEN "-" \o NatStr(0 - c.n) ELSE NatStr(c.n)
      [] OTHER ->
            LET a == IF c.n < 0 THEN 0 - c.n ELSE c.n
            IN  (IF c.n < 0 THEN "-" ELSE "") \o
                NatStr(a \div 10) \o "." \o NatStr(a % 10)

\* x in s for a substring pattern: some window of cs equals pat
Contains(cs, pat) ==
    \E i \in 1..(Len(cs) - Len(pat) + 1) :
        SubSeq(cs, i, i + Len(pat) - 1) = pat

\* -------------------------------------------------------- category mappings
sector_map_v2 ==
    ("Iron and steel" :> "iron_steel") @@
    ("Cement" :> "cement") @@
    ("Aluminium" :> "aluminum") @@
    ("Aluminum" :> "aluminum") @@
    ("Pulp and paper" :> "pulp_paper") @@
    ("Other industry" :> "cross_sector") @@
    ("Services - Buildings" :> "buildings") @@
    ("Residential Buildings" :> "buildings") @@
    ("Power" :> "power_generation") @@
    ("Power generation" :> "power_generation") @@
    ("Transport" :> "transport") @@
    ("Primary energy demand and industry" :> "cross_sector")

sector_map_v1 ==
    ("Iron and steel" :> "iron_steel") @@
    ("Cement" :> "cement") @@
    ("Aluminium" :> "aluminum") @@
    ("Pulp and paper" :> "pulp_paper") @@
    ("Other industry" :> "cross_sector") @@
    ("Services - Buildings" :> "buildings") @@
    ("Power" :> "power_generation") @@
    ("Power generation" :> "power_generation")

scenario_map ==
    ("ETP B2DS" :> "ETP_B2DS") @@
    ("SBTi 1.5C" :> "SBTi_1.5C") @@
    ("NZE2021" :> "NZE2021")

\* dict.get(key, default): the mapped value as a str cell, or the default
DictGet(map, key, default) ==
    IF IsStr(key) /\ key.s \in DOMAIN map THEN Str(map[key.s]) ELSE default

\* x in dict.values()
InValues(map, c) == IsStr(c) /\ \E k \in DOMAIN map : map[k] = c.s

\* ------------------------------------------------------------ header scan
\* YearOfHeaderV2 without the range test
YearOfHeaderV2AnyYear(header) ==
    IF Truthy(header) /\ IsStr(header)
    THEN LET p == PyInt(Chars[header.s])
         IN  [ok |-> p.ok, year |-> p.val]
    ELSE [ok |-> FALSE, year |-> 0]

\* v2, body of the header loop: a truthy str header that int() parses to a
\* year in range is a year column
YearOfHeaderV2(header) ==
    IF Truthy(header) /\ IsStr(header)
    THEN LET p == PyInt(Chars[header.s])
         IN  [ok |-> p.ok /\ MinYear <= p.val /\ p.val <= MaxYear,
              year |-> p.val]
    ELSE [ok |-> FALSE, year |-> 0]

RECURSIVE ScanFromV2(_, _)
ScanFromV2(header, col_idx) ==
    IF col_idx > Len(header) THEN <<>>
    ELSE LET y == YearOfHeaderV2(header[col_idx])
         IN  (IF y.ok THEN << <<col_idx, y.year>> >> ELSE <<>>)
             \o ScanFromV2(header, col_idx + 1)

\* v2: for col_idx in range(9, ws.max_column + 1)
ScanHeaderV2(header) == ScanFromV2(header, FirstYearCol)

\* v1, body of the header loop: a number within range is a year column,
\* its year is int(header) (truncation)
YearOfHeaderV1(header) ==
    IF /\ IsIntOrFloat(header)
       /\ MinYear * 10 <= Tenths(header)
       /\ Tenths(header) <= MaxYear * 10
    THEN [ok |-> TRUE, year |-> Tenths(header) \div 10]
    ELSE [ok |-> FALSE, year |-> 0]

RECURSIVE ScanFromV1(_, _)
ScanFromV1(headers, i) ==
    IF i >= Len(headers) THEN <<>>
    ELSE LET y == YearOfHeaderV1(headers[i + 1])
         IN  (IF y.ok THEN << <<i, y.year>> >> ELSE <<>>)
             \o ScanFromV1(headers, i + 1)

\* v1: for i, header in enumerate(headers), i counted from 0
ScanHeaderV1(headers) == ScanFromV1(headers, 0)

\* --------------------------------------------------------------- statements
\* The key of ON CONFLICT (scenario, sector, region, metric_type, unit, year)
Key(r) == <<r.scenario, r.sector, r.region, r.metric_type, r.unit, r.year>>

\* InsertStatement without its ON CONFLICT clause
InsertStatementPlain(f, year, value, data_source, on_conflict, row_idx, col) ==
    [op |-> "insert",
     scenario |-> PyFormat(f.scenario), sector |-> PyFormat(f.sector),
     region |-> PyFormat(f.region), metric_type |-> PyFormat(f.metric_type),
     unit |-> PyFormat(f.unit), year |-> year, value |-> value,
     data_source |-> data_source, on_conflict |-> "",
     row |-> row_idx, col |-> col]

\* One INSERT statement.  row and col record the sheet cell the value was
\* read from; they are not part of the statement's text.
InsertStatement(f, year, value, data_source, on_conflict, row_idx, col) ==
    [op |-> "insert",
     scenario |-> PyFormat(f.scenario), sector |-> PyFormat(f.sector),
     region |-> PyFormat(f.region), metric_type |-> PyFormat(f.metric_type),
     unit |-> PyFormat(f.unit), year |-> year, value |-> value,
     data_source |-> data_source, on_conflict |-> on_conflict,
     row |-> row_idx, col |-> col]

\* value is not None and isinstance(value, (int, float)) and value != 0
EmitsValue(value) ==
    value # None /\ IsIntOrFloat(value) /\ Tenths(value) # 0

\* ----------------------------------------------------------- v2 data rows
\* v2: the metric type derived from column E
MetricTypeV2(metric_type_raw) ==
    IF metric_type_raw = Str("Emissions") THEN Str("Emissions")
    ELSE IF metric_type_raw \in {Str("Electricity"), Str("Activity")}
         THEN Str("Activity")
         ELSE metric_type_raw

\* SkipsRowV2 with "and" in place of "or"
SkipsRowV2Both(row) ==
    LET scenario == DictGet(scenario_map, row[2], None)
        sector == DictGet(sector_map_v2, row[8], None)
    IN  ~Truthy(sector) /\ ~Truthy(scenario)

\* v2: if not sector or not scenario (the row is counted as skipped)
SkipsRowV2(row) ==
    LET scenario == DictGet(scenario_map, row[2], None)
        sector == DictGet(sector_map_v2, row[8], None)
    IN  ~Truthy(sector) \/ ~Truthy(scenario)

\* FiltersRowV2 dropping only the rows classified 'Activity'
FiltersRowV2ActivityOnly(row) == MetricTypeV2(row[5]) = Str("Activity")

\* v2: if metric_type != 'Emissions': continue
FiltersRowV2(row) == MetricTypeV2(row[5]) # Str("Emissions")

\* v2: the fields a row's statements carry
RowFieldsV2(row) ==
    [scenario |-> DictGet(scenario_map, row[2], None),
     sector |-> DictGet(sector_map_v2, row[8], None),
     region |-> IF Truthy(row[4]) THEN row[4] ELSE Str("World"),
     metric_type |-> MetricTypeV2(row[5]),
     unit |-> row[6]]

RECURSIVE YearValuesV2(_, _, _)
YearValuesV2(row, row_idx, yc) ==
    IF yc = <<>> THEN <<>>
    ELSE LET col_idx == Head(yc)[1]
             year == Head(yc)[2]
             value == row[col_idx]
         IN  (IF EmitsValue(value)
              THEN << InsertStatement(RowFieldsV2(row), year, value,
                                      "IEA SBTi Tool v2.4", "DO NOTHING",
                                      row_idx, col_idx) >>
              ELSE <<>>)
             \o YearValuesV2(row, row_idx, Tail(yc))

\* v2: the statements one data row appends to sql_statements
RowStatementsV2(row, row_idx, yc) ==
    IF SkipsRowV2(row) \/ FiltersRowV2(row) THEN <<>>
    ELSE YearValuesV2(row, row_idx, yc)

\* ----------------------------------------------------------- v1 data rows
\* v1: row[i].value if len(row) > i else default  (i counted from 0)
RowGet(row, i, default) == IF Len(row) > i THEN row[i + 1] ELSE default

\* v1: 'Emissions' if metric_type_raw == 'Emissions' else 'Activity'
MetricTypeV1(metric_type_raw) ==
    IF metric_type_raw = Str("Emissions")
    THEN Str("Emissions") ELSE Str("Activity")

\* v1: scenario_map.get(scenario_raw, scenario_raw)
ScenarioV1(row) ==
    LET scenario_raw == RowGet(row, 1, None)
    IN  DictGet(scenario_map, scenario_raw, scenario_raw)

\* v1: if not sector or not scenario or scenario not in scenario_map.values()
SkipsRowV1(row) ==
    LET scenario == ScenarioV1(row)
        sector == DictGet(sector_map_v1, RowGet(row, 7, None), None)
    IN  \/ ~Truthy(sector)
        \/ ~Truthy(scenario)
        \/ ~InValues(scenario_map, scenario)

\* v1: the fields a row's statements carry
RowFieldsV1(row) ==
    [scenario |-> ScenarioV1(row),
     sector |-> DictGet(sector_map_v1, RowGet(row, 7, None), None),
     region |-> RowGet(row, 3, Str("World")),
     metric_type |-> MetricTypeV1(RowGet(row, 4, None)),
     unit |-> RowGet(row, 5, None)]

RECURSIVE YearValuesV1(_, _, _)
YearValuesV1(row, row_idx, yc) ==
    IF yc = <<>> THEN <<>>
    ELSE LET col_idx == Head(yc)[1]
             year == Head(yc)[2]
         IN  (IF col_idx < Len(row) /\ EmitsValue(row[col_idx + 1])
              THEN << InsertStatement(RowFieldsV1(row), year,
                                      row[col_idx + 1],
                                      "IEA Database Sheet", "",
                                      row_idx, col_idx + 1) >>
              ELSE <<>>)
             \o YearValuesV1(row, row_idx, Tail(yc))

\* v1: the statements one data row appends to sql_statements
RowStatementsV1(row, row_idx, yc) ==
    IF SkipsRowV1(row) THEN <<>> ELSE YearValuesV1(row, row_idx, yc)

\* ------------------------------------------------------------- whole runs
\* v2: sql_statements after the loop over rows from..max_row
RECURSIVE RowsFromV2(_, _, _)
RowsFromV2(sh, from, yc) ==
    IF from > Len(sh.rows) + 1 THEN <<>>
    ELSE RowStatementsV2(sh.rows[from - 1], from, yc)
         \o RowsFromV2(sh, from + 1, yc)

\* v2: sql_statements of a run on the sheet
RunV2(sh) == RowsFromV2(sh, 2, ScanHeaderV2(sh.header))

\* v1: sql_statements after the loop over rows from..max_row
RECURSIVE RowsFromV1(_, _, _)
RowsFromV1(sh, from, yc) ==
    IF from > Len(sh.rows) + 1 THEN <<>>
    ELSE RowStatementsV1(sh.rows[from - 1], from, yc)
         \o RowsFromV1(sh, from + 1, yc)

\* v1: sql_statements of a run on the sheet
RunV1(sh) == RowsFromV1(sh, 2, ScanHeaderV1(sh.header))

\* ------------------------------------------------------------ written file
SqlLine(op) == [op |-> op]

\* v2: the SQL the file holds, in order (comment lines carry no SQL)
FileLinesV2(stmts) ==
    <<SqlLine("delete_iea")>> \o stmts
    \o <<SqlLine("select"), SqlLine("select")>>

\* v1: the SQL the file holds, in order
FileLinesV1(stmts) ==
    <<SqlLine("disable_triggers")>> \o stmts
    \o <<SqlLine("enable_triggers"), SqlLine("select")>>

\* -------------------------------------------------- the sbti_pathways table
\* The table is a sequence of rows with a unique index on the conflict key
\* (the ON CONFLICT target names it).  A row keeps the value literal its
\* statement carries.
TableRow(st) ==
    [scenario |-> st.scenario, sector |-> st.sector, region |-> st.region,
     metric_type |-> st.metric_type, unit |-> st.unit, year |-> st.year,
     value |-> st.value, data_source |-> st.data_source]

\* INSERT ... [ON CONFLICT (...) DO NOTHING]: on a key already in the table
\* the statement is a no-op with the clause and an error without it
ExecInsert(t, st) ==
    IF \E i \in DOMAIN t.rows : Key(t.rows[i]) = Key(st)
    THEN [rows |-> t.rows,
          failed |-> t.failed \/ st.on_conflict # "DO NOTHING"]
    ELSE [rows |-> Append(t.rows, TableRow(st)), failed |-> t.failed]

\* DELETE FROM sbti_pathways WHERE data_source LIKE '%IEA%'
ExecDeleteIEA(t) ==
    [rows |-> SelectSeq(t.rows,
                  LAMBDA r : ~Contains(Chars[r.data_source],
                                       <<"I", "E", "A">>)),
     failed |-> t.failed]

ExecLine(t, line) ==
    CASE line.op = "insert" -> ExecInsert(t, line)
      [] line.op = "delete_iea" -> ExecDeleteIEA(t)
      [] OTHER -> t

RECURSIVE ExecAll(_, _)
ExecAll(t, lines) ==
    IF lines = <<>> THEN t
    ELSE ExecAll(ExecLine(t, Head(lines)), Tail(lines))

\* -------------------------------------------------------------------- state
VARIABLES
    script,          \* which script is run: "v1" or "v2"
    has_database,    \* 'Database' in wb.sheetnames
    sheet,           \* ws: [header |-> row 1, rows |-> rows 2..max_row]
    pc,              \* position of the run
    year_columns,    \* list of (column, year) pairs
    row_idx,         \* loop variable of the data-row loop
    sql_statements,  \* list of INSERT statements
    processed_rows,  \* v2 counter
    skipped_rows,    \* v2 counter
    row_count,       \* v1 counter
    out_file,        \* the file at output_sql_path
    db0,             \* rows of sbti_pathways before any file is applied
    db,              \* rows of sbti_pathways
    db_failed,       \* some applied statement ended in an error
    applied          \* number of times the file has been applied

\* the forecast service (services/forecast-service/main.py), one request
VARIABLES
    historicalData,   \* request.historicalData
    monthsToForecast, \* request.monthsToForecast
    fc_pc,            \* position of predict
    fitted,           \* model.fit(df) was called
    exc,              \* the exception raised inside the try block
    response          \* what the client receives

vars == <<script, has_database, sheet, pc, year_columns, row_idx,
          sql_statements, processed_rows, skipped_rows, row_count,
          out_file, db0, db, db_failed, applied,
          historicalData, monthsToForecast, fc_pc, fitted, exc, response>>

fc_vars == <<historicalData, monthsToForecast, fc_pc, fitted, exc, response>>

run_vars == <<year_columns, row_idx, sql_statements, processed_rows,
              skipped_rows, row_count, out_file>>
db_vars == <<db, db_failed, applied>>
input_vars == <<script, has_database, sheet, db0>>

\* ------------------------------------------------------------------- inputs
YearCols == 1..NumYearCols

\* header cells of the eight metadata columns
MetaHeader ==
    <<Str("Model.Parameter"), Str("Scenario"), Str("Sheet"), Str("Region"),
      Str("Flow.1"), Str("Unit"), Str("Table.1"), Str("Sector.ETP")>>

\* a data row: columns B, D, E, F, H and the columns from I on
MkRow(scenario, region, metric, unit, sector, vals) ==
    <<None, scenario, None, region, metric, unit, None, sector>> \o vals

HeaderCells ==
    {None, Str("2013"), Str("2014"), Str("2050"), Str("2051"), Str("20x0"),
     Str(" 2020"), IntC(2020), FloatC(20205)}

CellVals ==
    {None, IntC(0), FloatC(0), IntC(7), FloatC(125), Str("n/a"),
     BoolC(TRUE), BoolC(FALSE)}

StrYears == [i \in YearCols |-> Str(NatStr(2019 + i))]
IntYears == [i \in YearCols |-> IntC(2019 + i)]
BaseVals == [i \in YearCols |-> IntC(5)]
NoVals == [i \in YearCols |-> None]

BaseRow ==
    MkRow(Str("SBTi 1.5C"), None, Str("Emissions"), Str("MtCO2"),
          Str("Aluminium"), BaseVals)

\* rows that differ from BaseRow in one label
LabelRows ==
    {MkRow(x, None, Str("Emissions"), Str("MtCO2"), Str("Aluminium"),
           BaseVals) : x \in {Str("SBTi_1.5C"), Str("sbti 1.5c"), None}}
    \cup
    {MkRow(Str("SBTi 1.5C"), None, Str("Emissions"), Str("MtCO2"), x,
           BaseVals) : x \in {Str("Aluminum"), Str("Chemicals"),
                              Str("Cement")}}
    \cup
    {MkRow(Str("SBTi 1.5C"), None, x, Str("MtCO2"), Str("Aluminium"),
           BaseVals) : x \in {Str("Electricity"), Str("Activity"),
                              Str("Energy"), None}}
    \cup
    {MkRow(Str("SBTi 1.5C"), x, Str("Emissions"), Str("MtCO2"),
           Str("Aluminium"), BaseVals) : x \in {Str("EU"), Str("")}}
    \cup
    {MkRow(Str("SBTi 1.5C"), None, Str("Emissions"), None,
           Str("Aluminium"), BaseVals)}

\* rows that differ from BaseRow in one value cell, and the row without
\* values
CellRows ==
    {MkRow(Str("SBTi 1.5C"), None, Str("Emissions"), Str("MtCO2"),
           Str("Aluminium"), [BaseVals EXCEPT ![i] = v]) :
        i \in YearCols, v \in CellVals}
    \cup
    {MkRow(Str("SBTi 1.5C"), None, Str("Emissions"), Str("MtCO2"),
           Str("Aluminium"), NoVals)}

RowSet == {BaseRow} \cup LabelRows \cup CellRows

SeqsUpTo(S, n) == UNION {[1..k -> S] : k \in 0..n}

\* sheets with any header cells and rows of BaseRow
HeaderSheets ==
    {[header |-> MetaHeader \o h, rows |-> [i \in 1..k |-> BaseRow]] :
        h \in [YearCols -> HeaderCells], k \in 0..MaxRows}

\* sheets with the year headers the script reads and any rows
RowSheets(sc) ==
    {[header |-> MetaHeader \o (IF sc = "v2" THEN StrYears ELSE IntYears),
      rows |-> r] : r \in SeqsUpTo(RowSet, MaxRows)}

\* sheets whose rows share one conflict key, run against a table that
\* already holds rows
TableSheets(sc) ==
    {sh \in RowSheets(sc) :
        \A i \in DOMAIN sh.rows :
            sh.rows[i] \in
                {BaseRow,
                 MkRow(Str("SBTi 1.5C"), None, Str("Emissions"),
                       Str("MtCO2"), Str("Aluminium"),
                       [BaseVals EXCEPT ![1] = IntC(7)])}}

\* rows already in the table before the run
TableRowOf(sector, value, data_source) ==
    [scenario |-> "SBTi_1.5C", sector |-> sector, region |-> "World",
     metric_type |-> "Emissions", unit |-> "MtCO2", year |-> 2020,
     value |-> value, data_source |-> data_source]

PreTables ==
    {<<TableRowOf("aluminum", IntC(9), "IEA SBTi Tool v2.4")>>,
     <<TableRowOf("aluminum", IntC(9), "manual")>>,
     <<TableRowOf("cement", IntC(9), "IEA Database Sheet")>>}

NoFile == [written |-> FALSE, lines |-> <<>>]
\* a file left at output_sql_path by an earlier run
OldFile == [written |-> TRUE, lines |-> <<SqlLine("select")>>]

\* no exception in flight, no response sent
NoExc == [type |-> "none", status_code |-> 0, detail |-> ""]
NoResponse == [status_code |-> 0, detail |-> "", forecasted |-> 0]

Init ==
    /\ script \in {"v1", "v2"}
    /\ \/ /\ has_database = FALSE
          /\ sheet = [header |-> <<>>, rows |-> <<>>]
          /\ db0 = <<>>
          /\ out_file \in {NoFile, OldFile}
       \/ /\ has_database = TRUE
          /\ sheet \in HeaderSheets
          /\ db0 = <<>>
          /\ out_file = NoFile
       \/ /\ has_database = TRUE
          /\ sheet \in RowSheets(script)
          /\ db0 = <<>>
          /\ out_file = NoFile
       \/ /\ has_database = TRUE
          /\ sheet \in TableSheets(script)
          /\ db0 \in PreTables
          /\ out_file = NoFile
    /\ pc = "start"
    /\ year_columns = <<>>
    /\ row_idx = 0
    /\ sql_statements = <<>>
    /\ processed_rows = 0
    /\ skipped_rows = 0
    /\ row_count = 0
    /\ db = db0
    /\ db_failed = FALSE
    /\ applied = 0
    /\ historicalData = <<>>
    /\ monthsToForecast = 0
    /\ fc_pc = "idle"
    /\ fitted = FALSE
    /\ exc = NoExc
    /\ response = NoResponse

\* ------------------------------------------------------------------ v2 run
\* LoadV2 without the test for the 'Database' sheet
LoadV2NoSheetTest ==
    /\ script = "v2" /\ pc = "start"
    /\ pc' = "scan"
    /\ UNCHANGED <<input_vars, fc_vars, run_vars, db_vars>>

\* wb = load_workbook(...); return if there is no 'Database' sheet
LoadV2 ==
    /\ script = "v2" /\ pc = "start"
    /\ pc' = IF has_database THEN "scan" ELSE "returned"
    /\ UNCHANGED <<input_vars, fc_vars, run_vars, db_vars>>

\* the header loop, and the initialisation of the lists and counters
ScanV2 ==
    /\ script = "v2" /\ pc = "scan"
    /\ year_columns' = ScanHeaderV2(sheet.header)
    /\ sql_statements' = <<>>
    /\ processed_rows' = 0
    /\ skipped_rows' = 0
    /\ row_idx' = 2
    /\ pc' = "rows"
    /\ UNCHANGED <<input_vars, fc_vars, row_count, out_file, db_vars>>

\* RowV2 counting every row that is not skipped as processed
RowV2CountsAll ==
    /\ script = "v2" /\ pc = "rows"
    /\ row_idx <= Len(sheet.rows) + 1
    /\ LET row == sheet.rows[row_idx - 1]
           stmts == RowStatementsV2(row, row_idx, year_columns)
       IN  /\ skipped_rows' =
                 IF SkipsRowV2(row) THEN skipped_rows + 1 ELSE skipped_rows
           /\ sql_statements' = sql_statements \o stmts
           /\ processed_rows' =
                 IF ~SkipsRowV2(row) THEN processed_rows + 1
                 ELSE processed_rows
    /\ row_idx' = row_idx + 1
    /\ UNCHANGED <<input_vars, fc_vars, pc, year_columns, row_count, out_file,
                   db_vars>>

\* one iteration of: for row_idx in range(2, ws.max_row + 1)
RowV2 ==
    /\ script = "v2" /\ pc = "rows"
    /\ row_idx <= Len(sheet.rows) + 1
    /\ LET row == sheet.rows[row_idx - 1]
           stmts == RowStatementsV2(row, row_idx, year_columns)
       IN  /\ skipped_rows' =
                 IF SkipsRowV2(row) THEN skipped_rows + 1 ELSE skipped_rows
           /\ sql_statements' = sql_statements \o stmts
           /\ processed_rows' =
                 IF Len(stmts) > 0 THEN processed_rows + 1
                 ELSE processed_rows
    /\ row_idx' = row_idx + 1
    /\ UNCHANGED <<input_vars, fc_vars, pc, year_columns, row_count, out_file,
                   db_vars>>

\* with open(output_sql_path, 'w') as f: ...
WriteV2 ==
    /\ script = "v2" /\ pc = "rows"
    /\ row_idx > Len(sheet.rows) + 1
    /\ out_file' = [written |-> TRUE, lines |-> FileLinesV2(sql_statements)]
    /\ pc' = "summary"
    /\ UNCHANGED <<input_vars, fc_vars, year_columns, row_idx, sql_statements,
                   processed_rows, skipped_rows, row_count, db_vars>>

\* the summary prints: year_columns[0][1] raises IndexError on an empty list
SummaryV2 ==
    /\ script = "v2" /\ pc = "summary"
    /\ pc' = IF year_columns = <<>> THEN "raised" ELSE "done"
    /\ UNCHANGED <<input_vars, fc_vars, run_vars, db_vars>>

\* ------------------------------------------------------------------ v1 run
LoadV1 ==
    /\ script = "v1" /\ pc = "start"
    /\ pc' = IF has_database THEN "scan" ELSE "returned"
    /\ UNCHANGED <<input_vars, fc_vars, run_vars, db_vars>>

ScanV1 ==
    /\ script = "v1" /\ pc = "scan"
    /\ year_columns' = ScanHeaderV1(sheet.header)
    /\ sql_statements' = <<>>
    /\ row_count' = 0
    /\ row_idx' = 2
    /\ pc' = "rows"
    /\ UNCHANGED <<input_vars, fc_vars, processed_rows, skipped_rows, out_file,
                   db_vars>>

RowV1 ==
    /\ script = "v1" /\ pc = "rows"
    /\ row_idx <= Len(sheet.rows) + 1
    /\ LET row == sheet.rows[row_idx - 1]
           stmts == RowStatementsV1(row, row_idx, year_columns)
       IN  /\ sql_statements' = sql_statements \o stmts
           /\ row_count' = row_count + Len(stmts)
    /\ row_idx' = row_idx + 1
    /\ UNCHANGED <<input_vars, fc_vars, pc, year_columns, processed_rows,
                   skipped_rows, out_file, db_vars>>

WriteV1 ==
    /\ script = "v1" /\ pc = "rows"
    /\ row_idx > Len(sheet.rows) + 1
    /\ out_file' = [written |-> TRUE, lines |-> FileLinesV1(sql_statements)]
    /\ pc' = "summary"
    /\ UNCHANGED <<input_vars, fc_vars, year_columns, row_idx, sql_statements,
                   processed_rows, skipped_rows, row_count, db_vars>>

SummaryV1 ==
    /\ script = "v1" /\ pc = "summary"
    /\ pc' = "done"
    /\ UNCHANGED <<input_vars, fc_vars, run_vars, db_vars>>

\* ------------------------------------------------------ applying the file
\* the written file is run against the table (psql < file), statement by
\* statement
ApplyOutput ==
    /\ pc \in {"done", "raised"}
    /\ out_file.written
    /\ applied < MaxApply
    /\ LET t == ExecAll([rows |-> db, failed |-> db_failed], out_file.lines)
       IN  /\ db' = t.rows
           /\ db_failed' = t.failed
    /\ applied' = applied + 1
    /\ UNCHANGED <<input_vars, fc_vars, pc, run_vars>>

Next ==
    \/ LoadV2 \/ ScanV2 \/ RowV2 \/ WriteV2 \/ SummaryV2
    \/ LoadV1 \/ ScanV1 \/ RowV1 \/ WriteV1 \/ SummaryV1
    \/ ApplyOutput

Spec == Init /\ [][Next]_vars

\* ========================================================= forecast service
\* HTTPException(status_code, detail) and any other exception with message
HTTPException(status_code, detail) ==
    [type |-> "HTTPException", status_code |-> status_code, detail |-> detail]
OtherException(message) ==
    [type |-> "Exception", status_code |-> 0, detail |-> message]

NeedDetail ==
    "Need at least 12 months of historical data for reliable forecasting"

\* str(e).  For an HTTPException the text depends on the installed
\* Starlette: "" where the class passes nothing to Exception.__init__,
\* "<status_code>: <detail>" where it defines __str__.
StrOfExc(e) ==
    IF e.type = "HTTPException"
    THEN {"", NatStr(e.status_code) \o ": " \o e.detail}
    ELSE {e.detail}

\* HistoricalDataPoint: date is any str, value a float
GoodPoint == [date |-> "2022-01-01", value |-> 1]
BadPoint == [date |-> "n/a", value |-> 1]
\* pd.to_datetime accepts the date
DateParses(d) == d.date = "2022-01-01"

\* requests: k points, all with a date that parses or the last one not
Histories ==
    {[i \in 1..k |-> GoodPoint] : k \in 0..MaxPoints}
    \cup {[i \in 1..k |-> IF i = k THEN BadPoint ELSE GoodPoint] :
             k \in 1..MaxPoints}

ForecastInit ==
    /\ script = "v2" /\ has_database = FALSE
    /\ sheet = [header |-> <<>>, rows |-> <<>>]
    /\ db0 = <<>> /\ out_file = NoFile
    /\ pc = "idle"
    /\ year_columns = <<>> /\ row_idx = 0 /\ sql_statements = <<>>
    /\ processed_rows = 0 /\ skipped_rows = 0 /\ row_count = 0
    /\ db = <<>> /\ db_failed = FALSE /\ applied = 0
    /\ historicalData \in Histories
    /\ monthsToForecast \in 1..MaxMonths
    /\ fc_pc = "validate"
    /\ fitted = FALSE
    /\ exc = NoExc
    /\ response = NoResponse

sbti_vars == <<input_vars, pc, run_vars, db_vars>>

\* 1. Validate input (inside the try block)
PredictValidate ==
    /\ fc_pc = "validate"
    /\ IF Len(historicalData) < MinHistory
       THEN /\ exc' = HTTPException(400, NeedDetail)
            /\ fc_pc' = "except"
       ELSE /\ exc' = exc
            /\ fc_pc' = "transform"
    /\ UNCHANGED <<sbti_vars, historicalData, monthsToForecast, fitted,
                   response>>

\* 2. Transform to Prophet format: pd.to_datetime raises on a date it
\* cannot parse
PredictTransform ==
    /\ fc_pc = "transform"
    /\ IF \A i \in DOMAIN historicalData : DateParses(historicalData[i])
       THEN /\ exc' = exc
            /\ fc_pc' = "fit"
       ELSE /\ exc' = OtherException("Unknown datetime string format")
            /\ fc_pc' = "except"
    /\ UNCHANGED <<sbti_vars, historicalData, monthsToForecast, fitted,
                   response>>

\* 3.-4. Initialize Prophet and fit it; the library call returns or raises
PredictFit ==
    /\ fc_pc = "fit"
    /\ fitted' = TRUE
    /\ \/ /\ exc' = exc
          /\ fc_pc' = "forecast"
       \/ /\ exc' = OtherException("fit failed")
          /\ fc_pc' = "except"
    /\ UNCHANGED <<sbti_vars, historicalData, monthsToForecast, response>>

\* 5.-8. forecast monthsToForecast months and return the response
PredictForecast ==
    /\ fc_pc = "forecast"
    /\ response' = [status_code |-> 200, detail |-> "",
                    forecasted |-> monthsToForecast]
    /\ fc_pc' = "responded"
    /\ UNCHANGED <<sbti_vars, historicalData, monthsToForecast, fitted, exc>>

\* except Exception as e: raise HTTPException(status_code=500, ...)
PredictExcept ==
    /\ fc_pc = "except"
    /\ \E text \in StrOfExc(exc) :
           response' = [status_code |-> 500,
                        detail |-> "Forecasting failed: " \o text,
                        forecasted |-> 0]
    /\ fc_pc' = "responded"
    /\ UNCHANGED <<sbti_vars, historicalData, monthsToForecast, fitted, exc>>

ForecastNext ==
    \/ PredictValidate \/ PredictTransform \/ PredictFit
    \/ PredictForecast \/ PredictExcept

ForecastSpec == ForecastInit /\ [][ForecastNext]_vars

\* ================================================================== claims
\* the data-row loop has ended
LoopEnded == pc \in {"summary", "done", "raised"}
\* the header scan has ended
Scanned == pc \in {"rows", "summary", "done", "raised"}
\* the number of data rows the loop has handled
RowsHandled ==
    IF pc = "rows" THEN row_idx - 2
    ELSE IF LoopEnded THEN Len(sheet.rows) ELSE 0

EmptyTable == [rows |-> <<>>, failed |-> FALSE]
RowsIn(t) == {t[i] : i \in DOMAIN t}
\* a raw label is a key of a mapping (exact match)
IsKey(map, c) == c.t = "str" /\ c.s \in DOMAIN map
SectorMapOf(sc) == IF sc = "v2" THEN sector_map_v2 ELSE sector_map_v1
\* the sheet column a year_columns entry names (v1 counts columns from 0)
ColumnOf(yc) == IF script = "v1" THEN yc[1] + 1 ELSE yc[1]

\* C1: the INSERT ... ON CONFLICT DO NOTHING statements of one v2 run,
\* applied twice to an empty table, leave the same rows as applied once,
\* with at most one row per conflict key and without a statement ending in
\* an error; and the table a run's file was applied to, once or twice from
\* empty, holds exactly those rows.
C1_ApplyTwiceSameAsOnce ==
    (script = "v2" /\ LoopEnded) =>
        LET once == ExecAll(EmptyTable, sql_statements)
            twice == ExecAll(once, sql_statements)
        IN  /\ twice.rows = once.rows
            /\ ~twice.failed
            /\ \A i, j \in DOMAIN twice.rows :
                   Key(twice.rows[i]) = Key(twice.rows[j]) => i = j
            /\ (db0 = <<>> /\ applied >= 1) => db = once.rows

\* C1 witness: a v2 file whose statements collide on a key was applied
\* twice to an empty table
C1_Witness ==
    /\ script = "v2" /\ pc = "done" /\ db0 = <<>> /\ applied = 2
    /\ db # <<>>
    /\ \E i, j \in DOMAIN sql_statements :
           i # j /\ Key(sql_statements[i]) = Key(sql_statements[j])

\* C2: applying the complete file v2 wrote never changes or removes a row
\* the table held before: every such row is still there afterwards.
C2_ExistingRowsPreserved ==
    (script = "v2" /\ applied >= 1) =>
        \A i \in DOMAIN db0 : \E j \in DOMAIN db : db[j] = db0[i]

\* the statements of the rows taken in the order p, concatenated
RECURSIVE StatementsInOrder(_, _)
StatementsInOrder(p, k) ==
    IF k > Len(sheet.rows) THEN <<>>
    ELSE RowStatementsV2(sheet.rows[p[k]], p[k] + 1, year_columns)
         \o StatementsInOrder(p, k + 1)

\* C3: the order of the rows is not significant: whatever order the rows
\* are processed in, applying the concatenated statements to an empty
\* table leaves the same rows, values included.
C3_RowOrderInsignificant ==
    (script = "v2" /\ LoopEnded) =>
        \A p \in Permutations(1..Len(sheet.rows)) :
            RowsIn(ExecAll(EmptyTable, StatementsInOrder(p, 1)).rows)
            = RowsIn(ExecAll(EmptyTable, sql_statements).rows)

\* C4: no two statements of one v2 run carry the same conflict key.
C4_StatementsUniquelyKeyed ==
    script = "v2" =>
        \A i, j \in DOMAIN sql_statements :
            Key(sql_statements[i]) = Key(sql_statements[j]) => i = j

\* C5: no statement is emitted for a cell that is empty, zero or not a
\* number (text, boolean): the cell every statement was read from is an
\* int or a float other than zero.
C5_NoStatementForUnusableCell ==
    \A k \in DOMAIN sql_statements :
        LET st == sql_statements[k]
            cell == sheet.rows[st.row - 1][st.col]
        IN  cell.t \in {"int", "float"} /\ cell.n # 0

\* C6: in both scripts a row whose raw sector or scenario label is not a
\* key of the script's mapping contributes no statement: every statement
\* comes from a row whose two labels are keys.
C6_UnmappedRowContributesNothing ==
    \A k \in DOMAIN sql_statements :
        LET row == sheet.rows[sql_statements[k].row - 1]
        IN  IsKey(scenario_map, row[2]) /\ IsKey(SectorMapOf(script), row[8])

\* a v2 data row whose sector or scenario label is not a mapping key
UnmappedV2(row) ==
    ~(IsKey(scenario_map, row[2]) /\ IsKey(sector_map_v2, row[8]))

\* C7: in v2, at every point of the run skipped_rows is the number of rows
\* handled so far whose sector or scenario is unmapped (one per such row),
\* the loop goes on to the last row, and so at the end skipped_rows is the
\* number of unmapped data rows.
C7_SkippedCountsUnmappedRows ==
    script = "v2" =>
        /\ skipped_rows =
               Cardinality({i \in 1..RowsHandled :
                               UnmappedV2(sheet.rows[i])})
        /\ LoopEnded => row_idx = Len(sheet.rows) + 2

\* C7 witness: a finished v2 run that skipped an unmapped first row, went
\* on and emitted statements for a later row
C7_Witness ==
    /\ script = "v2" /\ pc = "done"
    /\ Len(sheet.rows) >= 2
    /\ UnmappedV2(sheet.rows[1])
    /\ skipped_rows = 1
    /\ sql_statements # <<>>

\* a header cell that resolves to an integer within [MinYear, MaxYear]
ResolvesToYear(c) ==
    \/ /\ c.t = "str"
       /\ PyInt(Chars[c.s]).ok
       /\ MinYear <= PyInt(Chars[c.s]).val
       /\ PyInt(Chars[c.s]).val <= MaxYear
    \/ c.t = "int" /\ MinYear <= c.n /\ c.n <= MaxYear
    \/ c.t = "float" /\ c.n % 10 = 0
       /\ MinYear * 10 <= c.n /\ c.n <= MaxYear * 10

\* C8: the year-column list holds exactly the header columns whose cell
\* resolves to an integer within [2014, 2050], in column order, no year
\* twice.
C8_ScanFindsExactlyTheYears ==
    Scanned =>
        /\ \A c \in DOMAIN sheet.header :
               ResolvesToYear(sheet.header[c]) <=>
                   \E k \in DOMAIN year_columns :
                       ColumnOf(year_columns[k]) = c
        /\ \A j, k \in DOMAIN year_columns :
               j < k => year_columns[j][1] < year_columns[k][1]
        /\ \A j, k \in DOMAIN year_columns :
               year_columns[j][2] = year_columns[k][2] => j = k

\* C9: once computed, year_columns has non-decreasing, pairwise distinct
\* years within [2014, 2050] and stays what the scan made it.
C9_ColumnMapInvariant ==
    Scanned =>
        /\ \A j, k \in DOMAIN year_columns :
               j < k => year_columns[j][2] <= year_columns[k][2]
        /\ \A j, k \in DOMAIN year_columns :
               year_columns[j][2] = year_columns[k][2] => j = k
        /\ \A k \in DOMAIN year_columns :
               MinYear <= year_columns[k][2] /\ year_columns[k][2] <= MaxYear
        /\ year_columns = (IF script = "v2" THEN ScanHeaderV2(sheet.header)
                           ELSE ScanHeaderV1(sheet.header))

\* C10: a v2 run over a sheet without any year header completes normally:
\* it does not raise, and it has produced no statement.
C10_NoYearColumnsCompletes ==
    ( /\ script = "v2" /\ has_database
      /\ \A c \in DOMAIN sheet.header : ~ResolvesToYear(sheet.header[c]) )
    => (pc # "raised" /\ sql_statements = <<>>)

\* a header cell whose value, parsed or numeric, lies within
\* [MinYear, MaxYear]
HeaderCellInRange(c) ==
    \/ /\ c.t = "str"
       /\ PyInt(Chars[c.s]).ok
       /\ MinYear <= PyInt(Chars[c.s]).val
       /\ PyInt(Chars[c.s]).val <= MaxYear
    \/ /\ c.t \in {"int", "float"}
       /\ MinYear * 10 <= Tenths(c) /\ Tenths(c) <= MaxYear * 10

NoHeaderCellInRange ==
    \A c \in DOMAIN sheet.header : ~HeaderCellInRange(sheet.header[c])

\* C11: a sheet without any header cell in [2014, 2050] gives an empty
\* year_columns list and no statement, whatever its data rows hold.
C11_NoYearHeaderNoStatements ==
    (Scanned /\ NoHeaderCellInRange) =>
        (year_columns = <<>> /\ sql_statements = <<>>)

\* C11 witness: the row loop of v2 has ended over a sheet without a year
\* header whose rows are mapped 'Emissions' rows with non-zero numbers
C11_Witness ==
    /\ script = "v2" /\ LoopEnded /\ NoHeaderCellInRange
    /\ \E c \in DOMAIN sheet.header : sheet.header[c] = Str("2051")
    /\ sheet.rows # <<>>
    /\ \A i \in DOMAIN sheet.rows : sheet.rows[i] = BaseRow
    /\ year_columns = <<>> /\ sql_statements = <<>>

\* C12: without a 'Database' sheet the run ends early: no header is
\* scanned, no data row is processed, no statement is generated, and the
\* file at output_sql_path is neither created nor overwritten.
C12_NoSheetEndsEarly ==
    /\ [](~has_database =>
            /\ pc \in {"start", "returned"}
            /\ year_columns = <<>>
            /\ row_idx = 0
            /\ sql_statements = <<>>
            /\ out_file \in {NoFile, OldFile})
    /\ [][~has_database => out_file' = out_file]_vars

\* C12 witness: a run without the sheet has returned and the file an
\* earlier run left is still there
C12_Witness ==
    ~has_database /\ pc = "returned" /\ out_file = OldFile

\* a v2 data row that is accepted: both labels are mapping keys and the
\* metric label is 'Emissions'
AcceptedV2(row) == ~UnmappedV2(row) /\ row[5] = Str("Emissions")
\* a cell holding a number other than zero
NonZeroNumber(c) == c.t \in {"int", "float"} /\ c.n # 0
\* the statements in sql_statements that were emitted for sheet row r
StatementsOfRow(r) ==
    SelectSeq(sql_statements, LAMBDA st : st.row = r)
\* what a statement carries, with the column its value came from
Carried(st) ==
    [scenario |-> st.scenario, sector |-> st.sector, region |-> st.region,
     metric_type |-> st.metric_type, unit |-> st.unit, year |-> st.year,
     value |-> st.value, col |-> st.col]
\* the year_columns entries whose cell in the row is a non-zero number
NonZeroEntries(row) ==
    {k \in DOMAIN year_columns : NonZeroNumber(row[year_columns[k][1]])}
\* what the statement for entry k of an accepted row is to carry
CarriedFor(row, k) ==
    LET col == year_columns[k][1]
    IN  [scenario |-> scenario_map[row[2].s],
         sector |-> sector_map_v2[row[8].s],
         region |-> IF row[4] \in {None, Str("")} THEN "World"
                    ELSE PyFormat(row[4]),
         metric_type |-> "Emissions",
         unit |-> PyFormat(row[6]),
         year |-> PyInt(Chars[sheet.header[col].s]).val,
         value |-> row[col],
         col |-> col]

\* C13: for every accepted v2 row the statements are exactly one per
\* year_columns entry whose cell is a non-zero number, each with the row's
\* canonical scenario and sector, its region, metric type and unit, the
\* year of that column's header and that cell's value.
C13_OneStatementPerNonZeroNumber ==
    script = "v2" =>
        \A i \in 1..RowsHandled :
            AcceptedV2(sheet.rows[i]) =>
                LET row == sheet.rows[i]
                    sts == StatementsOfRow(i + 1)
                IN  /\ Len(sts) = Cardinality(NonZeroEntries(row))
                    /\ {Carried(sts[j]) : j \in DOMAIN sts}
                       = {CarriedFor(row, k) : k \in NonZeroEntries(row)}

\* the region cell of the row a statement was emitted for (column D)
RegionCellOf(st) == sheet.rows[st.row - 1][4]

\* C14: in both scripts every statement of a row whose region cell is empty
\* carries region 'World', and every statement of a row whose region cell
\* is not empty carries that cell's value unchanged.
C14_RegionDefaultsToWorld ==
    \A k \in DOMAIN sql_statements :
        LET st == sql_statements[k]
        IN  IF RegionCellOf(st) \in {None, Str("")}
            THEN st.region = "World"
            ELSE st.region = PyFormat(RegionCellOf(st))

\* the metric type a raw label is to be given
DerivedMetric(raw) ==
    CASE raw = Str("Emissions") -> Str("Emissions")
      [] raw \in {Str("Electricity"), Str("Activity")} -> Str("Activity")
      [] OTHER -> raw
\* the number of handled v2 rows that are unmapped
UnmappedHandled ==
    Cardinality({i \in 1..RowsHandled : UnmappedV2(sheet.rows[i])})

\* C15 as stated: the derived metric type is 'Emissions', 'Activity' or
\* the raw label; a mapped row emits statements if and only if the derived
\* type is 'Emissions'; a row dropped by the allowlist is not counted as
\* skipped.
C15_EmitsIffEmissions ==
    script = "v2" =>
        /\ \A i \in 1..RowsHandled :
               LET row == sheet.rows[i]
               IN  /\ MetricTypeV2(row[5]) = DerivedMetric(row[5])
                   /\ ~UnmappedV2(row) =>
                          (StatementsOfRow(i + 1) # <<>>
                           <=> DerivedMetric(row[5]) = Str("Emissions"))
        /\ skipped_rows = UnmappedHandled

\* C15 amended: the derived metric type is as stated; a mapped row emits
\* statements only if the derived type is 'Emissions', and a mapped
\* 'Emissions' row emits statements whenever one of its year columns holds
\* a non-zero number; a row dropped by the allowlist is not counted as
\* skipped.
C15_EmitsOnlyEmissionsWithValue ==
    script = "v2" =>
        /\ \A i \in 1..RowsHandled :
               LET row == sheet.rows[i]
               IN  /\ MetricTypeV2(row[5]) = DerivedMetric(row[5])
                   /\ ~UnmappedV2(row) =>
                          /\ StatementsOfRow(i + 1) # <<>>
                                 => DerivedMetric(row[5]) = Str("Emissions")
                          /\ (/\ DerivedMetric(row[5]) = Str("Emissions")
                              /\ \E k \in DOMAIN year_columns :
                                     NonZeroNumber(row[year_columns[k][1]]))
                                 => StatementsOfRow(i + 1) # <<>>
        /\ skipped_rows = UnmappedHandled

\* C15 witness: a finished v2 run whose first row, mapped and labelled
\* 'Electricity', emitted nothing and was not counted as skipped, and whose
\* second row emitted statements
C15_Witness ==
    /\ script = "v2" /\ pc = "done"
    /\ Len(sheet.rows) >= 2
    /\ ~UnmappedV2(sheet.rows[1])
    /\ sheet.rows[1][5] = Str("Electricity")
    /\ StatementsOfRow(2) = <<>>
    /\ StatementsOfRow(3) # <<>>
    /\ skipped_rows = 0

\* C16: the file of one v1 run, applied twice to an empty table, leaves the
\* same rows as applied once, with at most one row per conflict key, and
\* the second application ends without an error; the table the file was
\* applied to from empty holds those rows and saw no error.
C16_V1ApplyTwiceSameAsOnce ==
    (script = "v1" /\ pc = "done") =>
        LET once == ExecAll(EmptyTable, out_file.lines)
            twice == ExecAll([rows |-> once.rows, failed |-> FALSE],
                             out_file.lines)
        IN  /\ twice.rows = once.rows
            /\ ~twice.failed
            /\ \A i, j \in DOMAIN twice.rows :
                   Key(twice.rows[i]) = Key(twice.rows[j]) => i = j
            /\ (db0 = <<>> /\ applied = 2 /\ ~once.failed) =>
                   (db = once.rows /\ ~db_failed)

\* the record an INSERT statement carries
RecordOf(st) ==
    <<st.scenario, st.sector, st.region, st.metric_type, st.unit, st.year,
      st.value>>
RecordsOf(stmts) == {RecordOf(stmts[i]) : i \in DOMAIN stmts}
\* every row's sector and scenario labels are keys of both scripts' mappings
MappedInBoth(sh) ==
    \A i \in DOMAIN sh.rows :
        /\ IsKey(scenario_map, sh.rows[i][2])
        /\ IsKey(sector_map_v1, sh.rows[i][8])
        /\ IsKey(sector_map_v2, sh.rows[i][8])

\* C17: on a sheet whose sector and scenario labels are keys of both
\* scripts' mappings, the records of the statements the running script
\* emitted are the records of the statements the other script emits on the
\* same sheet.
C17_ScriptsEmitSameRecords ==
    (LoopEnded /\ MappedInBoth(sheet)) =>
        RecordsOf(sql_statements) =
            RecordsOf(IF script = "v2" THEN RunV1(sheet) ELSE RunV2(sheet))

\* the handled v2 rows that emitted at least one statement
EmittingHandled == {i \in 1..RowsHandled : StatementsOfRow(i + 1) # <<>>}

\* C18: at every point of a v2 run processed_rows is the number of handled
\* rows that emitted a statement, skipped_rows the number of handled rows
\* rejected as unmapped, no row is in both counts, their sum is at most the
\* number of rows handled, and there are at least processed_rows
\* statements.
C18_CountersConsistent ==
    script = "v2" =>
        /\ processed_rows = Cardinality(EmittingHandled)
        /\ skipped_rows = UnmappedHandled
        /\ \A i \in EmittingHandled : ~UnmappedV2(sheet.rows[i])
        /\ processed_rows + skipped_rows <= RowsHandled
        /\ Len(sql_statements) >= processed_rows

\* C18 witness: a finished v2 run over two rows that counted one as
\* processed and the other, mapped but without a statement, in neither
\* counter
C18_Witness ==
    /\ script = "v2" /\ pc = "done"
    /\ Len(sheet.rows) = 2
    /\ processed_rows = 1 /\ skipped_rows = 0
    /\ \E i \in 1..2 :
           ~UnmappedV2(sheet.rows[i]) /\ StatementsOfRow(i + 1) = <<>>

\* C19: a request with fewer than 12 historical data points is answered
\* with status 400 and the detail 'Need at least 12 months of historical
\* data for reliable forecasting' without a model having been fitted, and
\* status 500 answers only requests that got past that test.
C19_ShortHistoryAnswered400 ==
    fc_pc = "responded" =>
        /\ Len(historicalData) < MinHistory =>
               /\ response.status_code = 400
               /\ response.detail = NeedDetail
               /\ ~fitted
        /\ response.status_code = 500 => Len(historicalData) >= MinHistory

====
